---- MODULE Spec2Model ----
(***************************************************************************)
(* Channel runtime of the serial monitor: SerialManager / SerialConnection *)
(* (src/src/serial-manager.js) together with the entry points that drive   *)
(* it (src/src/ws-handler.js, src/src/api-routes.js).                      *)
(*                                                                         *)
(* JavaScript runs one callback at a time, so every action below is one    *)
(* run-to-completion step of the event loop: an API call up to its first   *)
(* suspension, or one callback of the serialport library (open, close,     *)
(* write, 'data', 'error') including the promise continuations it resumes.  *)
(* The serialport library itself is the environment: whether an open or a   *)
(* write succeeds, when callbacks fire and what bytes arrive is chosen      *)
(* nondeterministically.                                                    *)
(***************************************************************************)
EXTENDS Integers, Sequences, FiniteSets, TLC

(* ------------------------------ bounds -------------------------------- *)
\* External stimuli in one run: API calls (connect, disconnect, send, clear,
\* removeChannel) and device events ('data', 'error', unplug). The callbacks
\* they cause are not counted.
MaxOps == 4
\* Ring-buffer cap. The source sets 10_000_000 (serial-manager.js:34); the
\* model scales it down so that eviction happens within MaxOps.
MAX_BUFFER_LINES == 1
\* Shutdown triggers in one run (SIGINT, SIGTERM, POST /api/shutdown).
MaxSignals == 2
\* Timer ticks of the port poller in one run.
MaxPolls == 3
\* Decoder plugins in the plugins directory.
MaxPlugins == 2
\* Macro runs requested in one run of the server.
MaxRuns == 1
\* WebSocket clients accepted in one run of the server.
MaxClients == 2
\* Ticks of the heartbeat interval in one run.
MaxTicks == 3

(* ------------------------------ domains ------------------------------- *)
ChannelIds == {"a", "b"}
LF == "\n"
CR == "\r"
\* Chunks the device may deliver in one 'data' event: a line split before
\* its LF, with a CR as its last byte; a lone LF; a whole line.
RxChunks == {<<"h", CR>>, <<LF>>, <<"h", LF>>}
\* Payloads a client may send.
TxInputs == {[data |-> <<"A">>, mode |-> "ascii"],
             [data |-> <<"4", "1">>, mode |-> "hex"]}

Null == 0

(* ------------------------- SerialConnection --------------------------- *)
ZeroStats ==
    [bytesRx |-> 0, bytesTx |-> 0, linesRx |-> 0, linesTx |-> 0,
     errors |-> 0, connectedAt |-> -1]

\* new SerialConnection(channelId). port and parser are object references
\* (0 is null: ports are numbered from 1); connectedAt -1 is null, config 0
\* is null.
\* hist is the connection's history, kept for the properties only:
\*   n        entries produced over the lifetime
\*   e1, e2   index and timestamp of the last two entries produced
\*   between  a clearBuffer ran between e1 and e2
\*   cleared  a clearBuffer ran since the last entry
\*   used     indexes given out since the last clearBuffer
\*   ever     indexes given out over the lifetime
\*   dup      an index was given out twice since the last clearBuffer
\*   dupEver  an index was given out twice over the lifetime
\*   evicted  an entry was evicted from the full buffer
\*   epoch    counter resets (open callbacks) so far
\*   lostRx   an rx entry of the current epoch left the buffer
\*   writeErrs  write callbacks that reported an error
NoProduced == [index |-> -1, timestamp |-> -1]

NoHistory ==
    [n |-> 0, e1 |-> NoProduced, e2 |-> NoProduced, between |-> FALSE,
     cleared |-> FALSE, used |-> {}, ever |-> {}, dup |-> FALSE,
     dupEver |-> FALSE, evicted |-> FALSE, epoch |-> 0, lostRx |-> FALSE,
     writeErrs |-> 0]

SerialConnection(channelId) ==
    [channelId |-> channelId, port |-> 0, parser |-> 0, config |-> Null,
     connected |-> FALSE, stats |-> ZeroStats, buffer |-> <<>>,
     bufferIndex |-> 0, hist |-> NoHistory]

IsCurrentRx(conn, e) == e.direction = "rx" /\ e.epoch = conn.hist.epoch

\* Mutant: a full buffer is not shifted.
AddToBufferNoEvict(buffer, entry) == Append(buffer, entry)

\* Mutant: a full buffer refuses the new entry.
AddToBufferDropsWhenFull(buffer, entry) ==
    IF Len(buffer) >= MAX_BUFFER_LINES THEN buffer ELSE Append(buffer, entry)

\* SerialConnection._addToBuffer
AddToBuffer(buffer, entry) ==
    IF Len(buffer) >= MAX_BUFFER_LINES
    THEN Append(Tail(buffer), entry)
    ELSE Append(buffer, entry)

\* Mutant: the index is taken from the buffer's length.
NextIndexFromLength(conn) == Len(conn.buffer)

\* The entry literal of the parser 'data' handler and of the write callback,
\* with index: conn.bufferIndex++.
NextIndex(conn) == conn.bufferIndex

Entry(conn, direction, data, mode, ts) ==
    [timestamp |-> ts, direction |-> direction, data |-> data, mode |-> mode,
     index |-> NextIndex(conn), channelId |-> conn.channelId,
     epoch |-> conn.hist.epoch]

Record(conn, entry) ==
    [conn.hist EXCEPT
       !.n = @ + 1,
       !.e1 = conn.hist.e2,
       !.e2 = [index |-> entry.index, timestamp |-> entry.timestamp],
       !.between = conn.hist.cleared,
       !.cleared = FALSE,
       !.used = @ \cup {entry.index},
       !.ever = @ \cup {entry.index},
       !.dup = @ \/ entry.index \in conn.hist.used,
       !.dupEver = @ \/ entry.index \in conn.hist.ever,
       !.evicted = @ \/ Len(conn.buffer) >= MAX_BUFFER_LINES,
       !.lostRx = @ \/ (Len(conn.buffer) >= MAX_BUFFER_LINES
                        /\ IsCurrentRx(conn, Head(conn.buffer)))]

\* Mutant: the post-increment of bufferIndex is lost.
ProduceNoIncrement(conn, entry) ==
    [conn EXCEPT !.buffer = AddToBuffer(@, entry),
                 !.hist = Record(conn, entry)]

\* `index: conn.bufferIndex++` and `conn._addToBuffer(entry)` of the parser
\* 'data' handler and of the write callback.
Produce(conn, entry) ==
    [conn EXCEPT !.bufferIndex = @ + 1,
                 !.buffer = AddToBuffer(@, entry),
                 !.hist = Record(conn, entry)]

(* ------------------------------ SerialPort ---------------------------- *)
\* new SerialPort(portConfig) followed by port.open(cb): the object, the
\* closure variables of its callbacks (conn, channelId, portConfig) and the
\* promise connect() returned. parsers holds the accumulator of every
\* ReadlineParser piped from the port; each comes with one raw 'data'
\* listener. st: opening | open | closing | closed | failed. delivered is
\* history: the bytes the device delivered on this port.
SerialPort(conn, channelId, cfg) ==
    [conn |-> conn, channelId |-> channelId, cfg |-> cfg, st |-> "opening",
     parsers |-> <<>>, closeCbs |-> <<>>, writes |-> <<>>,
     promise |-> "pending", delivered |-> 0]

(* ------------------------------- state -------------------------------- *)
VARIABLES
    connections,   \* SerialManager.connections: channelId -> connection (0: absent)
    conns,         \* every SerialConnection object created
    ports,         \* every SerialPort object created
    events,        \* per channelId, how many events of each type were published
    proc,          \* running | crashed | exited
    thrown,        \* history: NotConnected errors send has thrown
    poller,        \* the port poller of SerialManager
    shutdowns,     \* history: gracefulShutdown calls so far
    plugins,       \* pluginLoader.plugins, in the order loadAll registered them
    wsOut,         \* the last serial:data message broadcast() was given
    macros,        \* macroEngine.macros
    runs,          \* the calls of macroEngine.run so far
    wss,           \* the WebSocket server: its clients and its heartbeat
    told,          \* per channelId, what its subscribers were told last
    reply,         \* the last answer to a status or buffer request
    ops            \* external stimuli so far

vars == <<connections, conns, ports, events, proc, thrown, poller, shutdowns,
          plugins, wsOut, macros, runs, wss, told, reply, ops>>

\* Date.now(): the clock advances with every stimulus, and the callbacks a
\* stimulus causes may still run within the same millisecond.
Now == ops

\* The portConfig object connect builds from its argument: every call builds
\* a new one, named here by the number of the call's stimulus.
PortConfig == ops + 1

\* The program state as one value, so that a handler is a function on it.
Cur == [connections |-> connections, conns |-> conns, ports |-> ports,
        events |-> events, proc |-> proc, thrown |-> thrown,
        poller |-> poller, shutdowns |-> shutdowns,
        plugins |-> plugins, wsOut |-> wsOut,
        macros |-> macros, runs |-> runs, wss |-> wss, told |-> told,
        reply |-> reply]

Commit(S) ==
    /\ connections' = S.connections
    /\ conns' = S.conns
    /\ ports' = S.ports
    /\ events' = S.events
    /\ proc' = S.proc
    /\ thrown' = S.thrown
    /\ poller' = S.poller
    /\ shutdowns' = S.shutdowns
    /\ plugins' = S.plugins
    /\ wsOut' = S.wsOut
    /\ macros' = S.macros
    /\ runs' = S.runs
    /\ wss' = S.wss
    /\ told' = S.told
    /\ reply' = S.reply

EventTypes == {"connected", "disconnected", "line", "error", "cleared"}

\* A mutation for the isolation check: an event without channel scoping,
\* counted for every channel.
EmitToAll(S, channelId, type) ==
    [S EXCEPT !.events = [c \in DOMAIN @ |-> [@[c] EXCEPT ![type] = @ + 1]]]

\* this.emit(type, channelId, ...) as seen by the subscribers: ws-handler
\* forwards every manager event to broadcast(), one message per event.
\* As history, told[channelId] keeps the last of 'connected' and
\* 'disconnected' the subscribers of the channel saw (status) and the index
\* of the last line they saw since the buffer was cleared or the channel
\* was removed (index, -1 when there is none).
Emit(S, channelId, type) ==
    [S EXCEPT !.events[channelId][type] = @ + 1,
              !.told[channelId].status =
                  IF type \in {"connected", "disconnected"} THEN type ELSE @,
              !.told[channelId].index = IF type = "cleared" THEN -1 ELSE @]

\* this.emit('line', channelId, entry)
EmitLine(S, channelId, entry) ==
    [Emit(S, channelId, "line") EXCEPT !.told[channelId].index = entry.index]

\* A callback of the library: one step of the event loop.
Step(S) == proc = "running" /\ Commit(S) /\ ops' = ops

\* An API call or a device event: a step that uses up one stimulus.
Stimulus(S) == proc = "running" /\ Commit(S) /\ ops < MaxOps /\ ops' = ops + 1

\* The poller after ws-handler's init has called startPortPolling:
\*   interval       this._portPollInterval is set
\*   lastPortPaths  this._lastPortPaths
\*   inflight       poll callbacks waiting for SerialPort.list()
\*   changed        'ports-changed' events published
\*   payload        the list the last 'ports-changed' carried
\* and, as history: ticks, the polls started; done, the polls completed;
\* seen, the set of paths at the last 'ports-changed'; and of the poll that
\* completed last: polled, the list listPorts returned; failed, whether
\* SerialPort.list() rejected; prev, the value of seen when it completed;
\* pub, whether it published 'ports-changed'.
PollerStarted ==
    [interval |-> TRUE, lastPortPaths |-> <<>>, inflight |-> 0, changed |-> 0,
     payload |-> <<>>, ticks |-> 0, done |-> 0, seen |-> {},
     polled |-> <<>>, failed |-> FALSE, prev |-> {}, pub |-> FALSE]

\* No serial:data message has been broadcast yet.
NoMessage ==
    [type |-> "none", channelId |-> "", payload |-> Null,
     hasDecoded |-> FALSE, decoded |-> <<>>]

\* No status or buffer request has been answered yet.
NoReply == [op |-> "none", channelId |-> "", present |-> FALSE, value |-> Null]

\* The server once it listens, with the decoders loadAll found.
Boot(loaded) ==
    [connections |-> [c \in ChannelIds |-> 0],
     conns |-> <<>>,
     ports |-> <<>>,
     events |-> [c \in ChannelIds |-> [t \in EventTypes |-> 0]],
     proc |-> "running",
     thrown |-> 0,
     poller |-> PollerStarted,
     shutdowns |-> 0,
     plugins |-> loaded,
     wsOut |-> NoMessage,
     macros |-> <<>>,
     runs |-> <<>>,
     wss |-> [clients |-> <<>>, ticks |-> 0],
     told |-> [c \in ChannelIds |-> [status |-> "none", index |-> -1]],
     reply |-> NoReply]

\* The program is in state S and no stimulus has been counted yet.
StartsAs(S) ==
    /\ ops = 0
    /\ connections = S.connections
    /\ conns = S.conns
    /\ ports = S.ports
    /\ events = S.events
    /\ proc = S.proc
    /\ thrown = S.thrown
    /\ poller = S.poller
    /\ shutdowns = S.shutdowns
    /\ plugins = S.plugins
    /\ wsOut = S.wsOut
    /\ macros = S.macros
    /\ runs = S.runs
    /\ wss = S.wss
    /\ told = S.told
    /\ reply = S.reply

Started(loaded) == StartsAs(Boot(loaded))

\* An empty plugins directory.
Init == Started(<<>>)

(* --------------------------- line framing ----------------------------- *)
\* DelimiterParser._transform of the ReadlineParser built with
\* delimiter '\n', includeDelimiter false: data = buffer ++ chunk; every
\* prefix up to a delimiter is pushed, the remainder is kept.
RECURSIVE Transform(_, _, _)
Transform(data, cur, lines) ==
    IF data = <<>> THEN [lines |-> lines, buffer |-> cur]
    ELSE IF Head(data) = LF
         THEN Transform(Tail(data), <<>>, Append(lines, cur))
         ELSE Transform(Tail(data), Append(cur, Head(data)), lines)

\* The parser is a byte-mode Transform stream: pushing an empty buffer
\* raises no 'data' event, so an empty line reaches no handler.
ReadlineParser(buffer, chunk) ==
    LET t == Transform(buffer \o chunk, <<>>, <<>>)
    IN [lines |-> SelectSeq(t.lines, LAMBDA l : Len(l) > 0),
        buffer |-> t.buffer]

(* --------------------------- send encoding ---------------------------- *)
Whitespace == {" ", "\t"}
HexDigits == {"0", "1", "2", "3", "4", "5", "6", "7", "8", "9",
              "a", "b", "c", "d", "e", "f", "A", "B", "C", "D", "E", "F"}

StripWhitespace(str) == SelectSeq(str, LAMBDA ch : ch \notin Whitespace)

\* Buffer.from(hexStr, 'hex').length: the leading valid byte pairs.
RECURSIVE HexLength(_)
HexLength(str) ==
    IF Len(str) >= 2 /\ str[1] \in HexDigits /\ str[2] \in HexDigits
    THEN 1 + HexLength(SubSeq(str, 3, Len(str)))
    ELSE 0

\* buffer.length of the switch (mode) in send; the data are single-byte
\* characters, so the UTF-8 length is the string length.
EncodedLength(data, mode) ==
    CASE mode = "hex" -> HexLength(StripWhitespace(data))
      [] mode = "binary" -> (Len(StripWhitespace(data)) + 7) \div 8
      [] OTHER -> Len(data) + 1

(* ---------------------------- the handlers ---------------------------- *)
\* What an awaiting caller does once disconnect()'s promise resolves.
NoCont == [k |-> "none", conn |-> 0, channelId |-> "-", cfg |-> Null]
ConnectCont(conn, channelId, cfg) ==
    [k |-> "connect", conn |-> conn, channelId |-> channelId, cfg |-> cfg]
RemoveCont(channelId) ==
    [k |-> "remove", conn |-> 0, channelId |-> channelId, cfg |-> Null]

\* connect, from `return new Promise` to port.open(cb).
ConnectOpen(S, k, channelId, cfg) ==
    [S EXCEPT !.ports = Append(@, SerialPort(k, channelId, cfg)),
              !.conns[k].port = Len(S.ports) + 1]

RECURSIVE DisconnectCall(_, _, _)

\* serialManager.stopPortPolling
StopPortPolling(S) == [S EXCEPT !.poller.interval = FALSE]

\* The loop of gracefulShutdown from the channel after the one at position
\* pos of the map (a Map iterates in insertion order, which is the order in
\* which the connection objects were created, and sees the entries added
\* while it runs), up to its next suspension or to process.exit(0).
ShutdownCont(pos) == [k |-> "shutdown", pos |-> pos]

ShutdownLoop(S, pos) ==
    LET later == {k \in DOMAIN S.conns :
                     k > pos /\ S.connections[S.conns[k].channelId] = k}
    IN IF later = {}
       THEN [S EXCEPT !.proc = "exited"]
       ELSE LET k == CHOOSE n \in later : \A m \in later : n <= m
            IN DisconnectCall(S, S.conns[k].channelId, ShutdownCont(k))

\* The code after `await this.disconnect(channelId)` in connect, in
\* removeChannel and in gracefulShutdown. It runs as a microtask of the
\* callback that resolved the promise, so it is part of that callback's
\* step. Nothing runs once the process has exited.
Resume(S, cont) ==
    CASE S.proc # "running" -> S
      [] cont.k = "connect" -> ConnectOpen(S, cont.conn, cont.channelId, cont.cfg)
      [] cont.k = "remove" -> [S EXCEPT !.connections[cont.channelId] = 0,
                                      !.told[cont.channelId].index = -1]
      [] cont.k = "shutdown" -> ShutdownLoop(S, cont.pos)
      [] OTHER -> S

\* port.close(cb) on an open port: the close starts and cb is called when
\* it is done.
PortClose(port, cb) ==
    [port EXCEPT !.closeCbs = Append(@, [cb EXCEPT !.real = (port.st = "open")]),
                 !.st = IF @ = "open" THEN "closing" ELSE @]

\* The body of the close callback of disconnect (err is only logged).
CloseCallbackBody(S, cb) ==
    Resume(Emit([S EXCEPT !.conns[cb.conn].connected = FALSE,
                          !.conns[cb.conn].port = 0,
                          !.conns[cb.conn].parser = 0,
                          !.conns[cb.conn].config = Null],
                cb.channelId, "disconnected"),
           cb.cont)

\* SerialManager.disconnect, up to the promise it returns. On a port that
\* is not open (opening, closing, closed) the library calls cb with 'Port is
\* not open' on the next tick, before anything else runs: that callback is
\* part of this step.
DisconnectCall(S, channelId, cont) ==
    LET k == S.connections[channelId] IN
    IF k = 0 THEN Resume(S, cont)
    ELSE IF S.conns[k].port = 0 \/ ~S.conns[k].connected
         THEN Resume([S EXCEPT !.conns[k].connected = FALSE], cont)
         ELSE IF S.ports[S.conns[k].port].st = "open"
              THEN [S EXCEPT !.ports[S.conns[k].port] =
                       PortClose(@, [conn |-> k, channelId |-> channelId,
                                     cont |-> cont, real |-> FALSE])]
              ELSE CloseCallbackBody(S, [conn |-> k, channelId |-> channelId,
                                         cont |-> cont, real |-> FALSE])

\* The close callback of disconnect, called when the port is closed.
CloseDone(S, p, i) ==
    LET cb == S.ports[p].closeCbs[i]
        rest == [j \in 1 .. Len(S.ports[p].closeCbs) - 1 |->
                    IF j < i THEN S.ports[p].closeCbs[j]
                    ELSE S.ports[p].closeCbs[j + 1]]
    IN CloseCallbackBody([S EXCEPT !.ports[p].closeCbs = rest,
                                   !.ports[p].st = IF cb.real THEN "closed" ELSE @],
                         cb)

\* SerialManager.getConnection
GetConnection(S, channelId) ==
    IF S.connections[channelId] = 0
    THEN [S EXCEPT !.conns = Append(@, SerialConnection(channelId)),
                   !.connections[channelId] = Len(S.conns) + 1]
    ELSE S

\* SerialManager.connect, up to its first suspension.
ConnectCall(S, channelId, cfg) ==
    LET S1 == GetConnection(S, channelId)
        k == S1.connections[channelId]
    IN IF S1.conns[k].connected
       THEN DisconnectCall(S1, channelId, ConnectCont(k, channelId, cfg))
       ELSE ConnectOpen(S1, k, channelId, cfg)

\* Mutant: the open callback forgets `conn.stats.errors = 0`.
ResetStatsKeepErrors(stats, ts) ==
    [ZeroStats EXCEPT !.connectedAt = ts, !.errors = stats.errors]

\* The counter assignments of the open callback.
ResetStats(stats, ts) == [ZeroStats EXCEPT !.connectedAt = ts]

\* The open callback with err null. conn.port is read when the callback
\* runs; when it is null, conn.port.on throws after the assignments and
\* neither the listeners, the event nor resolve are reached.
OpenDone(S, p, crash) ==
    LET port == S.ports[p]
        k == port.conn
        S1 == [S EXCEPT !.ports[p].st = "open",
                        !.conns[k].config = port.cfg,
                        !.conns[k].connected = TRUE,
                        !.conns[k].stats = ResetStats(@, Now),
                        !.conns[k].hist.epoch = @ + 1,
                        !.conns[k].hist.lostRx = FALSE]
        q == S1.conns[k].port
    IN IF q = 0
       THEN [S1 EXCEPT !.proc = IF crash THEN "crashed" ELSE @]
       ELSE Emit([S1 EXCEPT !.ports[q].parsers = Append(@, <<>>),
                            !.conns[k].parser = q,
                            !.ports[p].promise = "resolved"],
                 port.channelId, "connected")

\* The open callback with err set.
OpenFailed(S, p) ==
    [S EXCEPT !.ports[p].st = "failed",
              !.ports[p].promise = "rejected",
              !.conns[S.ports[p].conn].connected = FALSE]

\* Mutant: the handler forgets `conn.stats.linesRx++`.
RxLineUncounted(S, k, channelId, line) ==
    LET entry == Entry(S.conns[k], "rx", line, "-", Now)
    IN Emit([S EXCEPT !.conns[k] = Produce(S.conns[k], entry)],
            channelId, "line")

\* The parser 'data' handler for one line.
RxLine(S, k, channelId, line) ==
    LET conn == [S.conns[k] EXCEPT !.stats.linesRx = @ + 1]
        entry == Entry(conn, "rx", line, "-", Now)
    IN EmitLine([S EXCEPT !.conns[k] = Produce(conn, entry)],
            channelId, entry)

RECURSIVE RxLines(_, _, _, _)
RxLines(S, k, channelId, lines) ==
    IF lines = <<>> THEN S
    ELSE RxLines(RxLine(S, k, channelId, Head(lines)), k, channelId, Tail(lines))

\* One chunk through the i-th parser piped from port p, and on to the rest.
RECURSIVE RxParsers(_, _, _, _)
RxParsers(S, p, chunk, i) ==
    IF i > Len(S.ports[p].parsers) THEN S
    ELSE LET r == ReadlineParser(S.ports[p].parsers[i], chunk)
             S1 == [S EXCEPT !.ports[p].parsers[i] = r.buffer]
         IN RxParsers(RxLines(S1, S.ports[p].conn, S.ports[p].channelId, r.lines),
                      p, chunk, i + 1)

\* The raw 'data' listener: one per parser, each adds data.length.
RawData(S, p, chunk) ==
    [S EXCEPT !.conns[S.ports[p].conn].stats.bytesRx =
                 @ + Len(S.ports[p].parsers) * Len(chunk)]

\* A 'data' event of port p.
PortData(S, p, chunk) ==
    RxParsers(RawData([S EXCEPT !.ports[p].delivered = @ + Len(chunk)],
                      p, chunk),
              p, chunk, 1)

\* The guard of send: `!conn || !conn.port || !conn.connected`.
SendOutcome(S, channelId) ==
    LET k == S.connections[channelId] IN
    IF k = 0 THEN "NotConnected"
    ELSE IF S.conns[k].port = 0 \/ ~S.conns[k].connected THEN "NotConnected"
    ELSE "written"

\* Mutant: send only looks the channel up and writes to whatever port the
\* connection holds.
SendCallUnguarded(S, channelId, data, mode, ok) ==
    LET k == S.connections[channelId] IN
    IF k = 0 THEN [S EXCEPT !.thrown = @ + 1]
    ELSE IF S.conns[k].port = 0 THEN [S EXCEPT !.thrown = @ + 1]
    ELSE [S EXCEPT !.ports[S.conns[k].port].writes =
             Append(@, [data |-> data, mode |-> mode,
                        length |-> EncodedLength(data, mode), ok |-> ok])]

\* SerialManager.send up to port.write(buffer, cb); ok is the outcome the
\* device will report for this write. A write on a port that is neither
\* open nor opening waits for an 'open' event that never comes.
SendCall(S, channelId, data, mode, ok) ==
    LET k == S.connections[channelId] IN
    IF SendOutcome(S, channelId) = "NotConnected"
    THEN [S EXCEPT !.thrown = @ + 1]
    ELSE LET p == S.conns[k].port IN
         IF S.ports[p].st \in {"open", "opening"}
         THEN [S EXCEPT !.ports[p].writes =
                  Append(@, [data |-> data, mode |-> mode,
                             length |-> EncodedLength(data, mode), ok |-> ok])]
         ELSE S

\* Mutant: the error branch of the write callback does not return, so the
\* failed write is counted and logged like a successful one.
WriteDoneNoReturn(S, p) ==
    LET w == Head(S.ports[p].writes)
        k == S.ports[p].conn
        S1 == [S EXCEPT !.ports[p].writes = Tail(@)]
        S2 == IF w.ok THEN S1
              ELSE Emit([S1 EXCEPT !.conns[k].stats.errors = @ + 1,
                                   !.conns[k].hist.writeErrs = @ + 1],
                        S.ports[p].channelId, "error")
        conn == [S2.conns[k] EXCEPT !.stats.bytesTx = @ + w.length,
                                    !.stats.linesTx = @ + 1]
        entry == Entry(conn, "tx", w.data, w.mode, Now)
    IN EmitLine([S2 EXCEPT !.conns[k] = Produce(conn, entry)],
            S.ports[p].channelId, entry)

\* The write callback of send.
WriteDone(S, p) ==
    LET w == Head(S.ports[p].writes)
        k == S.ports[p].conn
        S1 == [S EXCEPT !.ports[p].writes = Tail(@)]
    IN IF ~w.ok
       THEN Emit([S1 EXCEPT !.conns[k].stats.errors = @ + 1,
                            !.conns[k].hist.writeErrs = @ + 1],
                 S.ports[p].channelId, "error")
       ELSE LET conn == [S1.conns[k] EXCEPT !.stats.bytesTx = @ + w.length,
                                            !.stats.linesTx = @ + 1]
                entry == Entry(conn, "tx", w.data, w.mode, Now)
            IN EmitLine([S1 EXCEPT !.conns[k] = Produce(conn, entry)],
                    S.ports[p].channelId, entry)

\* The port 'error' listener of connect.
PortErrorEvent(S, p) ==
    Emit([S EXCEPT !.conns[S.ports[p].conn].stats.errors = @ + 1],
         S.ports[p].channelId, "error")

\* Mutant: clearBuffer forgets `conn.bufferIndex = 0`.
ClearBufferKeepIndex(S, channelId) ==
    LET k == S.connections[channelId] IN
    IF k = 0 THEN S
    ELSE [S EXCEPT !.conns[k].buffer = <<>>,
                   !.conns[k].hist.cleared = TRUE,
                   !.conns[k].hist.used = {},
                   !.conns[k].hist.lostRx =
                       @ \/ \E i \in DOMAIN S.conns[k].buffer :
                               IsCurrentRx(S.conns[k], S.conns[k].buffer[i])]

\* SerialManager.clearBuffer
ClearBuffer(S, channelId) ==
    LET k == S.connections[channelId] IN
    IF k = 0 THEN S
    ELSE [S EXCEPT !.told[channelId].index = -1,
                   !.conns[k].buffer = <<>>,
                   !.conns[k].bufferIndex = 0,
                   !.conns[k].hist.cleared = TRUE,
                   !.conns[k].hist.used = {},
                   !.conns[k].hist.lostRx =
                       @ \/ \E i \in DOMAIN S.conns[k].buffer :
                               IsCurrentRx(S.conns[k], S.conns[k].buffer[i])]

\* handleMessage, case 'serial:clear'
WsClearMessage(S, channelId) ==
    Emit(ClearBuffer(S, channelId), channelId, "cleared")

\* router.post('/clear')
RestClearRequest(S, channelId) == ClearBuffer(S, channelId)

\* The status getStatus builds for a channelId the map does not hold
\* (connectedAt -1 stands for null).
ClosedStatus(channelId) ==
    [channelId |-> channelId, connected |-> FALSE, config |-> Null,
     stats |-> ZeroStats, bufferSize |-> 0]

\* SerialConnection.getStatus
ConnStatus(conn) ==
    [channelId |-> conn.channelId, connected |-> conn.connected,
     config |-> conn.config, stats |-> conn.stats,
     bufferSize |-> Len(conn.buffer)]

\* Mutant: getStatus looks the channel up with getConnection.
GetStatusCreates(S, channelId) ==
    LET S1 == GetConnection(S, channelId)
    IN [S1 EXCEPT !.reply =
           [op |-> "getStatus", channelId |-> channelId,
            present |-> S.connections[channelId] # 0,
            value |-> ConnStatus(S1.conns[S1.connections[channelId]])]]

\* SerialManager.getStatus(channelId); present is history: whether the map
\* held the channel.
GetStatusCall(S, channelId) ==
    LET k == S.connections[channelId]
    IN [S EXCEPT !.reply =
           [op |-> "getStatus", channelId |-> channelId, present |-> k # 0,
            value |-> IF k = 0 THEN ClosedStatus(channelId)
                      ELSE ConnStatus(S.conns[k])]]

\* SerialManager.getBuffer(channelId) with the default start and count.
GetBufferCall(S, channelId) ==
    LET k == S.connections[channelId]
    IN [S EXCEPT !.reply =
           [op |-> "getBuffer", channelId |-> channelId, present |-> k # 0,
            value |-> IF k = 0 THEN <<>> ELSE S.conns[k].buffer]]

(* ------------------------------ actions ------------------------------- *)
Connect(c) == Stimulus(ConnectCall(Cur, c, PortConfig))

Disconnect(c) == Stimulus(DisconnectCall(Cur, c, NoCont))

RemoveChannel(c) == Stimulus(DisconnectCall(Cur, c, RemoveCont(c)))

Send(c, inp, ok) == Stimulus(SendCall(Cur, c, inp.data, inp.mode, ok))

WsClear(c) == Stimulus(WsClearMessage(Cur, c))

RestClear(c) == Stimulus(RestClearRequest(Cur, c))

GetStatus(c) == Stimulus(GetStatusCall(Cur, c))

GetBuffer(c) == Stimulus(GetBufferCall(Cur, c))

OpenOk(p, crash) ==
    /\ ports[p].st = "opening"
    /\ Step(OpenDone(Cur, p, crash))

OpenErr(p) ==
    /\ ports[p].st = "opening"
    /\ Step(OpenFailed(Cur, p))

CloseCallback(p, i) ==
    /\ i \in DOMAIN ports[p].closeCbs
    /\ Step(CloseDone(Cur, p, i))

WriteCallback(p) ==
    /\ ports[p].writes # <<>>
    /\ ports[p].st \notin {"opening", "failed"}
    /\ Step(WriteDone(Cur, p))

DeviceData(p, chunk) ==
    /\ ports[p].st = "open"
    /\ ports[p].parsers # <<>>
    /\ Stimulus(PortData(Cur, p, chunk))

PortError(p) ==
    /\ ports[p].st = "open"
    /\ Stimulus(PortErrorEvent(Cur, p))

\* The device is unplugged: the library closes the port and emits 'close',
\* for which the program registers no listener.
DeviceVanish(p) ==
    /\ ports[p].st = "open"
    /\ Stimulus([Cur EXCEPT !.ports[p].st = "closed"])

\* gracefulShutdown, up to its first suspension or to process.exit(0).
GracefulShutdown(S) ==
    ShutdownLoop(StopPortPolling([S EXCEPT !.shutdowns = @ + 1]), 0)

\* SIGINT, SIGTERM, or the timer POST /api/shutdown sets.
Signal ==
    /\ shutdowns < MaxSignals
    /\ Step(GracefulShutdown(Cur))

\* The channel the data-path specification drives.
SpecChannels == {"a"}

Next ==
    \/ \E c \in SpecChannels : Connect(c)
    \/ \E c \in SpecChannels : Disconnect(c)
    \/ \E c \in SpecChannels : RemoveChannel(c)
    \/ \E c \in SpecChannels, inp \in TxInputs, ok \in BOOLEAN : Send(c, inp, ok)
    \/ \E c \in SpecChannels : WsClear(c)
    \/ \E c \in SpecChannels : RestClear(c)
    \/ \E p \in DOMAIN ports, crash \in BOOLEAN : OpenOk(p, crash)
    \/ \E p \in DOMAIN ports : OpenErr(p)
    \/ \E p \in DOMAIN ports : \E i \in DOMAIN ports[p].closeCbs : CloseCallback(p, i)
    \/ \E p \in DOMAIN ports : WriteCallback(p)
    \/ \E p \in DOMAIN ports, chunk \in RxChunks : DeviceData(p, chunk)
    \/ \E p \in DOMAIN ports : PortError(p)
    \/ \E p \in DOMAIN ports : DeviceVanish(p)

Spec == Init /\ [][Next]_vars

(* ---------------------------- port polling ---------------------------- *)
\* The device paths of the machine, in the order of JavaScript's default
\* sort (by UTF-16 code units).
PathOrder == <<"COM3", "COM4">>
Paths == {PathOrder[i] : i \in DOMAIN PathOrder}
PathRank(p) == CHOOSE i \in DOMAIN PathOrder : PathOrder[i] = p

Range(s) == {s[i] : i \in DOMAIN s}

\* What SerialPort.list() can resolve to: the devices present, each once, in
\* the order the operating system reports them.
Enumerations ==
    {s \in UNION {[1..n -> Paths] : n \in 0..Cardinality(Paths)} :
        \A i, j \in DOMAIN s : i # j => s[i] # s[j]}

\* Array.prototype.sort() without a comparator (a mutation for the paths
\* check: no sorting at all).
SortNone(s) == s

RECURSIVE Sort(_)
Sort(s) ==
    IF s = <<>> THEN <<>>
    ELSE LET i == CHOOSE n \in DOMAIN s :
                      \A m \in DOMAIN s : PathRank(s[n]) <= PathRank(s[m])
         IN <<s[i]>> \o Sort(SubSeq(s, 1, i - 1) \o SubSeq(s, i + 1, Len(s)))

\* Array.prototype.join(','): the string as the sequence of its parts.
RECURSIVE Join(_)
Join(s) ==
    IF s = <<>> THEN <<>>
    ELSE IF Len(s) = 1 THEN <<s[1]>>
    ELSE <<s[1], ",">> \o Join(Tail(s))

\* listPorts: the list of PortInfo (its paths, in the order enumerated), or
\* the empty list when SerialPort.list() rejects.
ListPorts(outcome) == IF outcome.err THEN <<>> ELSE outcome.ports

\* The interval callback after its await: compare and publish.  sort() is in
\* place, so this._lastPortPaths is left sorted.
PollCompare(S, list) ==
    LET currentPaths == Join(Sort(list))
        sortedLast == Sort(S.poller.lastPortPaths)
        prevPaths == Join(sortedLast)
    IN IF currentPaths # prevPaths
       THEN [S EXCEPT !.poller.lastPortPaths = list,
                      !.poller.changed = @ + 1,
                      !.poller.payload = list,
                      !.poller.seen = Range(list),
                      !.poller.pub = TRUE]
       ELSE [S EXCEPT !.poller.lastPortPaths = sortedLast,
                      !.poller.pub = FALSE]

PollDone(S, outcome) ==
    PollCompare([S EXCEPT !.poller.inflight = @ - 1,
                          !.poller.done = @ + 1,
                          !.poller.polled = ListPorts(outcome),
                          !.poller.failed = outcome.err,
                          !.poller.prev = S.poller.seen],
                ListPorts(outcome))

\* The interval timer fires: the callback runs up to its await.
PollTick ==
    /\ poller.interval
    /\ poller.ticks < MaxPolls
    /\ Step([Cur EXCEPT !.poller.inflight = @ + 1, !.poller.ticks = @ + 1])

\* SerialPort.list() resolves.
ListDone(list) ==
    /\ poller.inflight > 0
    /\ Step(PollDone(Cur, [err |-> FALSE, ports |-> list]))

\* SerialPort.list() rejects.
ListFail ==
    /\ poller.inflight > 0
    /\ Step(PollDone(Cur, [err |-> TRUE, ports |-> <<>>]))

\* The poller alone: ticks, enumerations in every order, and shutdown.
PollNext ==
    \/ PollTick
    \/ \E list \in Enumerations : ListDone(list)
    \/ ListFail
    \/ Signal

PollSpec == Init /\ [][PollNext]_vars

(* ----------------------------- WebSockets ----------------------------- *)
\* A socket the server accepted: readyState (open | closed) and isAlive,
\* and as history: bad, the messages it sent that were no valid JSON or had
\* no known type; errors, the {type: 'error'} replies sent to it; pinged,
\* the heartbeat ticks that pinged it; pongs, the pongs received from it
\* since the last tick; missed, whether a tick found it pinged at the tick
\* before and without a pong since; terminated, whether the heartbeat
\* terminated it.
WebSocket ==
    [readyState |-> "open", isAlive |-> TRUE, bad |-> 0, errors |-> 0,
     pinged |-> 0, pongs |-> 0, missed |-> FALSE, terminated |-> FALSE]

\* wss.on('connection'): the plugin list is sent and the listeners are set.
WsConnectionEvent(S) == [S EXCEPT !.wss.clients = Append(@, WebSocket)]

\* Inbound frames that name no known message type: text that is no JSON,
\* an object with another type, an object without a type, a JSON number,
\* and the JSON value null.
BadMessages == {"not-json", "unknown-type", "no-type", "number", "null"}

\* ws.on('message') for these frames. JSON.parse throws for text that is no
\* JSON and the catch replies. Otherwise handleMessage is called: it reads
\* msg.channelId and falls to the default case, which replies; for null the
\* read throws inside the async function, whose rejected promise nobody
\* handles, so no reply is sent and the runtime may end the process (crash).
MessageEvent(S, c, raw, crash) ==
    LET S1 == [S EXCEPT !.wss.clients[c].bad = @ + 1] IN
    IF raw = "null"
    THEN [S1 EXCEPT !.proc = IF crash THEN "crashed" ELSE @]
    ELSE [S1 EXCEPT !.wss.clients[c].errors = @ + 1]

\* ws.on('pong')
PongEvent(S, c) ==
    [S EXCEPT !.wss.clients[c].isAlive = TRUE,
              !.wss.clients[c].pongs = @ + 1]

\* A mutation for the heartbeat check: the tick pings without clearing
\* isAlive.
HeartbeatClientNoReset(ws) ==
    IF ws.readyState # "open" THEN ws
    ELSE [ws EXCEPT !.pinged = @ + 1, !.pongs = 0,
                    !.missed = ws.pinged > 0 /\ ws.pongs = 0]

\* The body of wss.clients.forEach in the heartbeat interval, for a socket
\* of wss.clients (the open ones): terminate it, or clear isAlive and ping.
HeartbeatClient(ws) ==
    IF ws.readyState # "open" THEN ws
    ELSE IF ~ws.isAlive
    THEN [ws EXCEPT !.readyState = "closed", !.terminated = TRUE,
                    !.missed = ws.pinged > 0 /\ ws.pongs = 0]
    ELSE [ws EXCEPT !.isAlive = FALSE, !.pinged = @ + 1, !.pongs = 0,
                    !.missed = ws.pinged > 0 /\ ws.pongs = 0]

\* The heartbeat interval fires.
HeartbeatTick(S) ==
    [S EXCEPT !.wss.clients = [c \in DOMAIN @ |-> HeartbeatClient(@[c])],
              !.wss.ticks = @ + 1]

WsConnection ==
    /\ Len(wss.clients) < MaxClients
    /\ Stimulus(WsConnectionEvent(Cur))

WsMessage(c, raw, crash) ==
    /\ wss.clients[c].readyState = "open"
    /\ Stimulus(MessageEvent(Cur, c, raw, crash))

\* The client answers a ping, or sends a pong of its own accord.
WsPong(c) ==
    /\ wss.clients[c].readyState = "open"
    /\ Stimulus(PongEvent(Cur, c))

Heartbeat ==
    /\ wss.ticks < MaxTicks
    /\ Step(HeartbeatTick(Cur))

\* Clients that connect, send frames the server does not understand and
\* answer pings or do not, and the heartbeat.
WsNext ==
    \/ WsConnection
    \/ \E c \in DOMAIN wss.clients, raw \in BadMessages, crash \in BOOLEAN :
          WsMessage(c, raw, crash)
    \/ \E c \in DOMAIN wss.clients : WsPong(c)
    \/ Heartbeat

WsSpec == Init /\ [][WsNext]_vars

(* ------------------------------ hex sends ----------------------------- *)
\* What a client may send in hex mode: "41", "4 1" (whitespace between the
\* digits), "4" and "414" (an odd number of digits), "zz" and "41z" (a
\* character that is no hex digit).
HexInputs ==
    {[data |-> d, mode |-> "hex"] :
        d \in {<<"4", "1">>, <<"4", " ", "1">>, <<"4">>, <<"4", "1", "4">>,
                <<"z", "z">>, <<"4", "1", "z">>}}

\* One channel that is opened and sent to in hex mode.
HexNext ==
    \/ Connect("a")
    \/ \E inp \in HexInputs, ok \in BOOLEAN : Send("a", inp, ok)
    \/ \E p \in DOMAIN ports : OpenOk(p, FALSE)
    \/ \E p \in DOMAIN ports : WriteCallback(p)

HexSpec == Init /\ [][HexNext]_vars

(* ------------------------- two channels at once ----------------------- *)
\* Clients and devices of two channels: connect, disconnect, send, clear,
\* received lines, and the callbacks of the library. Channel a is driven
\* through all of these; channel b is connected and received from.
IsolationNext ==
    \/ \E c \in ChannelIds : Connect(c)
    \/ Disconnect("a")
    \/ Send("a", [data |-> <<"A">>, mode |-> "ascii"], TRUE)
    \/ WsClear("a")
    \/ \E p \in DOMAIN ports : OpenOk(p, FALSE)
    \/ \E p \in DOMAIN ports : \E i \in DOMAIN ports[p].closeCbs : CloseCallback(p, i)
    \/ \E p \in DOMAIN ports : WriteCallback(p)
    \/ \E p \in DOMAIN ports : DeviceData(p, <<"h", LF>>)

IsolationSpec == Init /\ [][IsolationNext]_vars

(* ----------------------- a channel in mid-use ------------------------ *)
\* Channel a after connect, a send whose write has completed and whose
\* entry was published, and a second send whose write is still in flight.
InUse ==
    LET S1 == OpenDone(ConnectCall(Boot(<<>>), "a", PortConfig), 1, FALSE)
        S2 == WriteDone(SendCall(S1, "a", <<"A">>, "ascii", TRUE), 1)
    IN SendCall(S2, "a", <<"A">>, "ascii", TRUE)

OrderInit == StartsAs(InUse)

\* What follows on the channel: it is disconnected, removed, connected
\* again or cleared, and the library and the device go on.
OrderNext ==
    \/ Connect("a")
    \/ Disconnect("a")
    \/ RemoveChannel("a")
    \/ WsClear("a")
    \/ \E p \in DOMAIN ports : OpenOk(p, FALSE)
    \/ \E p \in DOMAIN ports : \E i \in DOMAIN ports[p].closeCbs : CloseCallback(p, i)
    \/ \E p \in DOMAIN ports : WriteCallback(p)
    \/ \E p \in DOMAIN ports : DeviceData(p, <<"h", LF>>)

OrderSpec == OrderInit /\ [][OrderNext]_vars

(* ------------------- requests that name any channel ------------------ *)
\* Clients connect channel a and ask for, clear, write to and disconnect
\* both channels.
FrameNext ==
    \/ Connect("a")
    \/ \E c \in ChannelIds : Disconnect(c)
    \/ \E c \in ChannelIds : Send(c, [data |-> <<"A">>, mode |-> "ascii"], TRUE)
    \/ \E c \in ChannelIds : RestClear(c)
    \/ \E c \in ChannelIds : GetStatus(c)
    \/ \E c \in ChannelIds : GetBuffer(c)
    \/ \E p \in DOMAIN ports : OpenOk(p, FALSE)
    \/ \E p \in DOMAIN ports : \E i \in DOMAIN ports[p].closeCbs : CloseCallback(p, i)
    \/ \E p \in DOMAIN ports : WriteCallback(p)

FrameSpec == Init /\ [][FrameNext]_vars

(* ------------------------------ decoders ------------------------------ *)
\* Buffer.from(string): the UTF-8 bytes of the characters in use.
CharCode(ch) ==
    CASE ch = "h" -> 104
      [] ch = "A" -> 65
      [] ch = "4" -> 52
      [] ch = "1" -> 49
      [] ch = CR -> 13
      [] ch = LF -> 10

BufferFrom(str) == [i \in DOMAIN str |-> CharCode(str[i])]

\* The result of one decode call: it returned a frame, returned null, or
\* threw.
Returned(frame) == [kind |-> "frame", value |-> frame]
ReturnedNull == [kind |-> "null"]
Threw == [kind |-> "threw"]

DecodedFrame(protocol, bytes) ==
    [protocol |-> protocol, fields |-> [length |-> Len(bytes)], display |-> bytes]

\* Decoder plugins after the ones shipped: Header matches on a leading byte
\* and returns null otherwise (the example decoder); Framed reads a 16-bit
\* field at the end of the data without a length check, so it throws a
\* RangeError on data shorter than two bytes; Silent never matches.
PluginFiles ==
    {[name |-> "Header"], [name |-> "Framed"], [name |-> "Silent"]}

Decode(plugin, bytes) ==
    CASE plugin.name = "Header" ->
           IF Len(bytes) < 1 \/ bytes[1] # 104 THEN ReturnedNull
           ELSE Returned(DecodedFrame("Custom", bytes))
      [] plugin.name = "Framed" ->
           IF Len(bytes) < 2 THEN Threw
           ELSE Returned(DecodedFrame("Framed", bytes))
      [] OTHER -> ReturnedNull

\* What loadAll can register: the plugin files of the directory, each once,
\* in the order readdirSync lists them.
PluginLists ==
    {l \in UNION {[1..n -> PluginFiles] : n \in 0..MaxPlugins} :
        \A i, j \in DOMAIN l : i # j => l[i] # l[j]}

\* { plugin: plugin.name, ...result }: the keys of result come last.
Tagged(plugin, result) == result @@ [plugin |-> plugin.name]

\* Mutant: one try block around the whole loop, so the first decoder that
\* throws ends the collection.
RECURSIVE DecodeAllStopsAtThrow(_, _)
DecodeAllStopsAtThrow(registered, bytes) ==
    IF registered = <<>> THEN <<>>
    ELSE LET r == Decode(Head(registered), bytes)
         IN IF r.kind = "threw" THEN <<>>
            ELSE (IF r.kind = "frame" THEN <<Tagged(Head(registered), r.value)>>
                  ELSE <<>>)
                 \o DecodeAllStopsAtThrow(Tail(registered), bytes)

\* pluginLoader.decodeAll over the plugins registered.
RECURSIVE DecodeAll(_, _)
DecodeAll(registered, bytes) ==
    IF registered = <<>> THEN <<>>
    ELSE LET r == Decode(Head(registered), bytes)
         IN (IF r.kind = "frame"
             THEN <<Tagged(Head(registered), r.value)>>
             ELSE <<>>)
            \o DecodeAll(Tail(registered), bytes)

\* The 'line' listener of ws-handler: the message given to broadcast().
\* `decoded` is undefined (left out of the JSON) when nothing was decoded.
LineListener(S, channelId, entry) ==
    LET decoded == DecodeAll(S.plugins, BufferFrom(entry.data))
    IN [S EXCEPT !.wsOut =
          [type |-> "serial:data", channelId |-> channelId, payload |-> entry,
           hasDecoded |-> Len(decoded) > 0, decoded |-> decoded]]

\* The lines the parser hands to the 'data' handler of connect.
RxLineData == {<<"h">>, <<"h", CR>>}

\* The entries 'line' events carry: the rx entry the parser 'data' handler
\* builds and the tx entry the write callback builds, on a channel whose
\* next index is i.
LineEntries(channelId) ==
    {Entry([SerialConnection(channelId) EXCEPT !.bufferIndex = i],
           "rx", line, "-", Now) :
        line \in RxLineData, i \in 0..1}
    \cup
    {Entry([SerialConnection(channelId) EXCEPT !.bufferIndex = i],
           "tx", inp.data, inp.mode, Now) :
        inp \in TxInputs, i \in 0..1}

\* The device delivers a line or completes a write, and the manager emits
\* 'line' for the rx entry or for the tx entry.
LineEvent(channelId, entry) ==
    Stimulus(LineListener(Emit(Cur, channelId, "line"), channelId, entry))

DecodeNext ==
    \E c \in ChannelIds : \E entry \in LineEntries(c) : LineEvent(c, entry)

DecodeInit == \E loaded \in PluginLists : Started(loaded)

DecodeSpec == DecodeInit /\ [][DecodeNext]_vars

(* ------------------------------- macros ------------------------------- *)
\* Strings are sequences of characters. The body of POST /macros: the
\* macro of the worked example ("S{{x}}" in ascii with a delay, then "41" in
\* hex without one, twice), and one command with no mode, no delay, no
\* name and no repeatCount ("" and 0 stand for the missing fields).
MacroInputs ==
    {[name |-> "set-go",
      commands |-> <<[data |-> <<"S", "{", "{", "x", "}", "}">>,
                      mode |-> "ascii", delayMs |-> 10],
                     [data |-> <<"4", "1">>, mode |-> "hex", delayMs |-> 0]>>,
      repeatCount |-> 2],
     [name |-> "",
      commands |-> <<[data |-> <<"{", "{", "x", "}", "}">>,
                      mode |-> "", delayMs |-> 0]>>,
      repeatCount |-> 0]}

\* The body of PUT /macros/:id: a new name, alone or with an id field.
UpdateInputs == {[name |-> "renamed"], [name |-> "renamed", id |-> 9]}

\* Object.entries(params) of the body of POST /macros/:id/run, in insertion
\* order: {x: "42"}, {x: "$$"}, {x: "{{y}}", y: "1"}.
ParamInputs ==
    {<<[key |-> <<"x">>, value |-> <<"4", "2">>]>>,
     <<[key |-> <<"x">>, value |-> <<"$", "$">>]>>,
     <<[key |-> <<"x">>, value |-> <<"{", "{", "y", "}", "}">>],
       [key |-> <<"y">>, value |-> <<"1">>]>>}

\* uuidv4(): an id no macro has been given before.
NewId(S) == Len(S.macros) + 1

\* MacroEngine.create; assigned is history: the id create gave the macro.
CreateMacroCall(S, data) ==
    [S EXCEPT !.macros = Append(@,
        [id |-> NewId(S),
         name |-> IF data.name = "" THEN "Untitled Macro" ELSE data.name,
         commands |-> data.commands,
         repeatCount |-> IF data.repeatCount = 0 THEN 1 ELSE data.repeatCount,
         createdAt |-> Now,
         updatedAt |-> Now,
         assigned |-> NewId(S)])]

\* this.macros.findIndex(m => m.id === id), 0 for -1.
FindIndex(S, id) ==
    IF \E i \in DOMAIN S.macros : S.macros[i].id = id
    THEN CHOOSE i \in DOMAIN S.macros :
            /\ S.macros[i].id = id
            /\ \A j \in DOMAIN S.macros : S.macros[j].id = id => i <= j
    ELSE 0

\* MacroEngine.update: { ...this.macros[idx], ...data, updatedAt }; the
\* keys of data replace those of the stored macro. 'Macro not found' is
\* thrown to the route, which answers 400.
UpdateMacroCall(S, id, data) ==
    LET idx == FindIndex(S, id) IN
    IF idx = 0 THEN S
    ELSE [S EXCEPT !.macros[idx] = [(data @@ @) EXCEPT !.updatedAt = Now]]

\* The grave accent (U+0060) and the apostrophe as characters.
Grave == "grave"
Apostrophe == "'"

\* String.prototype.replace with a string as replacement: $$ stands for $,
\* $& for the match, $ with a grave accent for the text before the match and
\* $ with an apostrophe for the text after it.
RECURSIVE GetSubstitution(_, _, _, _)
GetSubstitution(value, matched, before, after) ==
    IF value = <<>> THEN <<>>
    ELSE IF Len(value) >= 2 /\ value[1] = "$" /\ value[2] \in {"$", "&", Grave, Apostrophe}
    THEN (CASE value[2] = "$" -> <<"$">>
            [] value[2] = "&" -> matched
            [] value[2] = Grave -> before
            [] OTHER -> after)
         \o GetSubstitution(SubSeq(value, 3, Len(value)), matched, before, after)
    ELSE <<value[1]>> \o GetSubstitution(Tail(value), matched, before, after)

\* The text the RegExp built from key matches, for a key of plain
\* characters: the key between two pairs of braces.
Placeholder(key) == <<"{", "{">> \o key \o <<"}", "}">>

MatchesAt(str, i, pat) ==
    /\ i + Len(pat) - 1 <= Len(str)
    /\ SubSeq(str, i, i + Len(pat) - 1) = pat

\* data.replace(regexp with flag g, value), from position i on.
RECURSIVE ReplaceAll(_, _, _, _)
ReplaceAll(str, i, pat, value) ==
    IF i > Len(str) THEN <<>>
    ELSE IF MatchesAt(str, i, pat)
    THEN GetSubstitution(value, pat, SubSeq(str, 1, i - 1),
                         SubSeq(str, i + Len(pat), Len(str)))
         \o ReplaceAll(str, i + Len(pat), pat, value)
    ELSE <<str[i]>> \o ReplaceAll(str, i + 1, pat, value)

\* The parameter injection loop of run: one replace per entry of params,
\* each on the result of the one before.
RECURSIVE Inject(_, _)
Inject(data, entries) ==
    IF entries = <<>> THEN data
    ELSE Inject(ReplaceAll(data, 1, Placeholder(Head(entries).key),
                           Head(entries).value),
                Tail(entries))

\* conn.stats.errors counted by write callbacks on the channel's connection.
WriteErrors(S, channelId) ==
    IF S.connections[channelId] = 0 THEN 0
    ELSE S.conns[S.connections[channelId]].hist.writeErrs

\* A call of run: the macro object it found, its arguments, r and i (the
\* loop counters: iterations done, next command), status (waiting: in the
\* delay timer; succeeded; failed: send threw), and as history: sent, the
\* sends issued, and afterError, whether one was issued after a write of
\* the channel had failed.
MacroRun(macro, params, channelId) ==
    [macro |-> macro, params |-> params, channelId |-> channelId,
     r |-> 0, i |-> 1, status |-> "running", sent |-> <<>>,
     afterError |-> FALSE]

\* The loops of run for the n-th call, up to the next delay, the end, or a
\* throwing send; ok is the result the device will report for the writes.
RECURSIVE MacroLoop(_, _, _)
MacroLoop(S, n, ok) ==
    LET run == S.runs[n]
        macro == run.macro
        repeatCount == IF macro.repeatCount = 0 THEN 1 ELSE macro.repeatCount
    IN IF run.r >= repeatCount
       THEN [S EXCEPT !.runs[n].status = "succeeded"]
       ELSE IF run.i > Len(macro.commands)
       THEN MacroLoop([S EXCEPT !.runs[n].r = @ + 1, !.runs[n].i = 1], n, ok)
       ELSE LET cmd == macro.commands[run.i]
                data == Inject(cmd.data, run.params)
                mode == IF cmd.mode = "" THEN "ascii" ELSE cmd.mode
                S1 == SendCall(S, run.channelId, data, mode, ok)
            IN IF SendOutcome(S, run.channelId) = "NotConnected"
               THEN [S1 EXCEPT !.runs[n].status = "failed"]
               ELSE LET S2 == [S1 EXCEPT
                                 !.runs[n].i = @ + 1,
                                 !.runs[n].sent =
                                     Append(@, [data |-> data, mode |-> mode]),
                                 !.runs[n].afterError =
                                     @ \/ WriteErrors(S, run.channelId) > 0]
                    IN IF cmd.delayMs > 0
                       THEN [S2 EXCEPT !.runs[n].status = "waiting"]
                       ELSE MacroLoop(S2, n, ok)

\* POST /macros/:id/run: run up to its first await. 'Macro not found' is
\* thrown to the route, which answers 400.
RunMacroCall(S, id, params, channelId, ok) ==
    LET idx == FindIndex(S, id) IN
    IF idx = 0 THEN S
    ELSE MacroLoop([S EXCEPT !.runs =
                       Append(@, MacroRun(S.macros[idx], params, channelId))],
                   Len(S.runs) + 1, ok)

CreateMacro(data) == Stimulus(CreateMacroCall(Cur, data))

UpdateMacro(id, data) == Stimulus(UpdateMacroCall(Cur, id, data))

RunMacro(id, params, c, ok) ==
    /\ Len(runs) < MaxRuns
    /\ Stimulus(RunMacroCall(Cur, id, params, c, ok))

\* The timer of a delay fires and run goes on after its await.
MacroTimer(n, ok) ==
    /\ runs[n].status = "waiting"
    /\ Step(MacroLoop([Cur EXCEPT !.runs[n].status = "running"], n, ok))

\* The ids a client may name: those it was given, and one never given.
MacroIds == 1..2

\* The macro store and the executor on one channel.
MacroNext ==
    \/ \E data \in MacroInputs : CreateMacro(data)
    \/ \E id \in MacroIds, data \in UpdateInputs : UpdateMacro(id, data)
    \/ \E id \in MacroIds, params \in ParamInputs, ok \in BOOLEAN :
          RunMacro(id, params, "a", ok)
    \/ \E n \in DOMAIN runs, ok \in BOOLEAN : MacroTimer(n, ok)
    \/ Connect("a")
    \/ Disconnect("a")
    \/ \E p \in DOMAIN ports : OpenOk(p, FALSE)
    \/ \E p \in DOMAIN ports : \E i \in DOMAIN ports[p].closeCbs : CloseCallback(p, i)
    \/ \E p \in DOMAIN ports : WriteCallback(p)

MacroSpec == Init /\ [][MacroNext]_vars

\* The body of POST /macros for a macro that ends with a delay: "A" in
\* ascii with a delay of 10 ms, twice.
DelayInputs ==
    {[name |-> "blink",
      commands |-> <<[data |-> <<"A">>, mode |-> "ascii", delayMs |-> 10]>>,
      repeatCount |-> 2]}

\* The executor with that macro on one channel.
DelayNext ==
    \/ \E data \in DelayInputs : CreateMacro(data)
    \/ \E id \in MacroIds, params \in ParamInputs, ok \in BOOLEAN :
          RunMacro(id, params, "a", ok)
    \/ \E n \in DOMAIN runs, ok \in BOOLEAN : MacroTimer(n, ok)
    \/ Connect("a")
    \/ \E p \in DOMAIN ports : OpenOk(p, FALSE)
    \/ \E p \in DOMAIN ports : WriteCallback(p)

DelaySpec == Init /\ [][DelayNext]_vars

(* ------------------------------ shutdown ------------------------------ *)
\* The server with clients that connect and disconnect two channels, devices
\* that open, fail to open and vanish, and shutdown triggers.
ShutdownNext ==
    \/ \E c \in ChannelIds : Connect(c)
    \/ \E c \in ChannelIds : Disconnect(c)
    \/ Signal
    \/ \E p \in DOMAIN ports, crash \in BOOLEAN : OpenOk(p, crash)
    \/ \E p \in DOMAIN ports : OpenErr(p)
    \/ \E p \in DOMAIN ports : \E i \in DOMAIN ports[p].closeCbs : CloseCallback(p, i)
    \/ \E p \in DOMAIN ports : DeviceVanish(p)

ShutdownSpec == Init /\ [][ShutdownNext]_vars

(* ------------------------------ claims -------------------------------- *)
RxInBuffer(conn) ==
    Cardinality({i \in DOMAIN conn.buffer : conn.buffer[i].direction = "rx"})

CurrentRxInBuffer(conn) ==
    Cardinality({i \in DOMAIN conn.buffer : IsCurrentRx(conn, conn.buffer[i])})

\* C1, as claimed: any two entries a channel produces one after the other
\* have consecutive indexes and ordered timestamps, clearBuffer calls in
\* between included.
C1_ConsecutiveEntries ==
    \A k \in DOMAIN conns :
        conns[k].hist.n >= 2 =>
            /\ conns[k].hist.e2.index = conns[k].hist.e1.index + 1
            /\ conns[k].hist.e2.timestamp >= conns[k].hist.e1.timestamp

\* C1, amended: two entries a channel produces one after the other have
\* ordered timestamps; their indexes are consecutive when no clearBuffer ran
\* between them, and the first entry after a clearBuffer has index 0.
C1_ConsecutiveUnlessCleared ==
    \A k \in DOMAIN conns :
        conns[k].hist.n >= 2 =>
            /\ conns[k].hist.e2.timestamp >= conns[k].hist.e1.timestamp
            /\ IF conns[k].hist.between
               THEN conns[k].hist.e2.index = 0
               ELSE conns[k].hist.e2.index = conns[k].hist.e1.index + 1

\* C1 witness: two entries in a row with no clear between them, the second
\* one produced after an eviction.
C1_Witness ==
    \E k \in DOMAIN conns :
        /\ conns[k].hist.n >= 2
        /\ ~conns[k].hist.between
        /\ conns[k].hist.evicted
        /\ conns[k].hist.e2.index >= 1

\* C2, as claimed: over a channel's lifetime the next-index counter never
\* decreases and no index is given to two entries.
C2_IndexNeverReused ==
    [][\A k \in DOMAIN conns :
          /\ conns'[k].bufferIndex >= conns[k].bufferIndex
          /\ ~conns'[k].hist.dupEver]_vars

\* C2, amended: the next-index counter decreases only when clearBuffer
\* resets it to 0 and empties the buffer, and no index is given to two
\* entries produced between two clearBuffer calls; rx lines, sends,
\* evictions and open/close cycles never rewind it.
C2_IndexUniqueBetweenClears ==
    [][\A k \in DOMAIN conns :
          /\ conns'[k].bufferIndex < conns[k].bufferIndex =>
                /\ conns'[k].bufferIndex = 0
                /\ conns'[k].buffer = <<>>
                /\ conns'[k].hist.cleared
          /\ ~conns'[k].hist.dup]_vars

\* C2 witness: the counter kept counting through an eviction and a second
\* open of the channel.
C2_Witness ==
    \E k \in DOMAIN conns :
        /\ conns[k].bufferIndex >= 2
        /\ conns[k].hist.evicted
        /\ conns[k].hist.epoch >= 2

\* C3, as claimed: once an ascii send whose write succeeds has returned, its
\* tx entry (same data, mode ascii) is in the ring buffer.
C3_TxEntryInBufferAtReturn ==
    \A p \in DOMAIN ports : \A i \in DOMAIN ports[p].writes :
        (ports[p].writes[i].ok /\ ports[p].writes[i].mode = "ascii") =>
            \E j \in DOMAIN conns[ports[p].conn].buffer :
                /\ conns[ports[p].conn].buffer[j].direction = "tx"
                /\ conns[ports[p].conn].buffer[j].data = ports[p].writes[i].data
                /\ conns[ports[p].conn].buffer[j].mode = "ascii"

\* C4, as claimed: linesRx is at least the number of rx entries in the ring
\* buffer, and equals it while no eviction has occurred.
C4_LinesRxCoversBuffer ==
    \A k \in DOMAIN conns :
        /\ conns[k].stats.linesRx >= RxInBuffer(conns[k])
        /\ ~conns[k].hist.evicted =>
              conns[k].stats.linesRx = RxInBuffer(conns[k])

\* C4, amended: linesRx counts the rx entries produced since the last open
\* of the channel: it is at least the number of rx entries of the current
\* connection in the ring buffer, and equals it exactly when none of them
\* was evicted or cleared. (Entries of earlier connections stay in the
\* buffer when the open callback resets linesRx.)
C4_LinesRxSinceOpen ==
    \A k \in DOMAIN conns :
        /\ conns[k].stats.linesRx >= CurrentRxInBuffer(conns[k])
        /\ conns[k].stats.linesRx = CurrentRxInBuffer(conns[k])
              <=> ~conns[k].hist.lostRx

\* C4 witness: after a second open, a line was received and is in the
\* buffer, and the entry of the first connection was evicted.
C4_Witness ==
    \E k \in DOMAIN conns :
        /\ conns[k].hist.epoch >= 2
        /\ conns[k].hist.evicted
        /\ conns[k].stats.linesRx = 1
        /\ CurrentRxInBuffer(conns[k]) = 1

\* C5, as claimed: on an open channel bytesRx is the number of bytes the
\* device delivered on the channel's current connection.
C5_BytesRxIsBytesDelivered ==
    \A k \in DOMAIN conns :
        (conns[k].connected /\ conns[k].port # 0) =>
            conns[k].stats.bytesRx = ports[conns[k].port].delivered

\* C6, as claimed: a channel never publishes more disconnected events than
\* connected events.
C6_DisconnectedOncePerConnected ==
    \A c \in ChannelIds : events[c]["disconnected"] <= events[c]["connected"]

\* No open, close or write callback of the connection is pending.
Quiescent(k) ==
    \A p \in DOMAIN ports :
        ports[p].conn = k =>
            /\ ports[p].st # "opening"
            /\ ports[p].closeCbs = <<>>
            /\ ports[p].writes = <<>>

\* The connection holds an opened, not yet closed port with its listeners.
HoldsLiveHandle(k) ==
    /\ conns[k].port # 0
    /\ ports[conns[k].port].st = "open"
    /\ ports[conns[k].port].parsers # <<>>

\* C7, as claimed, read in the states where no callback is pending:
\* connected holds exactly when the channel holds a live handle with its
\* listeners and config is set, and a channel that is not connected has no
\* config and no open port.
C7_ConnectedIffLiveHandle ==
    \A k \in DOMAIN conns :
        Quiescent(k) =>
            /\ conns[k].connected <=>
                  (HoldsLiveHandle(k) /\ conns[k].config # Null)
            /\ ~conns[k].connected =>
                  /\ conns[k].config = Null
                  /\ \A p \in DOMAIN ports :
                        ports[p].conn = k => ports[p].st # "open"

\* C8: the open callback that resolves connect sets config to the call's
\* portConfig, connected to true, connectedAt to the clock, the five
\* counters to 0, publishes exactly one connected event and no other, and
\* leaves buffer and bufferIndex as they were.
C8_OpenEffects ==
    [][\A p \in DOMAIN ports :
          (ports[p].promise = "pending" /\ ports'[p].promise = "resolved") =>
              /\ conns'[ports[p].conn].config = ports[p].cfg
              /\ conns'[ports[p].conn].connected
              /\ conns'[ports[p].conn].stats =
                    [bytesRx |-> 0, bytesTx |-> 0, linesRx |-> 0,
                     linesTx |-> 0, errors |-> 0, connectedAt |-> Now]
              /\ events'[ports[p].channelId] =
                    [events[ports[p].channelId] EXCEPT !["connected"] = @ + 1]
              /\ conns'[ports[p].conn].buffer = conns[ports[p].conn].buffer
              /\ conns'[ports[p].conn].bufferIndex =
                    conns[ports[p].conn].bufferIndex]_vars

\* C8 witness: a channel opened for the second time: its counters are 0,
\* the entries of the first connection are still buffered and the index
\* counter stands where it stood.
C8_Witness ==
    \E k \in DOMAIN conns :
        /\ conns[k].hist.epoch >= 2
        /\ conns[k].connected
        /\ conns[k].config # Null
        /\ conns[k].stats.linesRx = 0
        /\ conns[k].stats.bytesRx = 0
        /\ conns[k].buffer # <<>>
        /\ conns[k].bufferIndex >= 1
        /\ events[conns[k].channelId]["connected"] >= 2

\* C9: a clear (either entry point) leaves the channel's buffer empty and
\* its next index 0 and leaves stats, connected and config as they were;
\* clearing twice gives the state that clearing once gives.
C9_ClearBufferEffects ==
    [][\A c \in ChannelIds :
          /\ (WsClear(c) \/ RestClear(c)) /\ connections[c] # 0 =>
                /\ conns'[connections[c]].buffer = <<>>
                /\ conns'[connections[c]].bufferIndex = 0
                /\ conns'[connections[c]].stats = conns[connections[c]].stats
                /\ conns'[connections[c]].connected = conns[connections[c]].connected
                /\ conns'[connections[c]].config = conns[connections[c]].config
          /\ ClearBuffer(ClearBuffer(Cur, c), c) = ClearBuffer(Cur, c)]_vars

\* C9 witness: a connected channel with counted lines was cleared.
C9_Witness ==
    \E k \in DOMAIN conns :
        /\ conns[k].hist.cleared
        /\ conns[k].hist.n >= 1
        /\ conns[k].connected
        /\ conns[k].stats.linesRx >= 1
        /\ conns[k].buffer = <<>>
        /\ conns[k].bufferIndex = 0

\* C10, as claimed: every clear, from the WebSocket message or from the REST
\* route, publishes one cleared event for the channel.
C10_ClearPublishesCleared ==
    [][\A c \in ChannelIds :
          (WsClear(c) \/ RestClear(c)) =>
              events'[c]["cleared"] = events[c]["cleared"] + 1]_vars

\* C11: a send on a channel that is absent or whose connected flag is false
\* is refused with the NotConnected error and changes nothing: no write is
\* queued on any port, no entry is appended, stats, index and events stay
\* as they were.
C11_SendNotConnected ==
    [][\A c \in ChannelIds, inp \in TxInputs, ok \in BOOLEAN :
          (/\ Send(c, inp, ok)
           /\ \/ connections[c] = 0
              \/ ~conns[connections[c]].connected) =>
              /\ SendOutcome(Cur, c) = "NotConnected"
              /\ thrown' = thrown + 1
              /\ ports' = ports
              /\ conns' = conns
              /\ events' = events
              /\ connections' = connections]_vars

\* C11 witness: sends were refused both on an absent channel and on one that
\* exists with a port object but is not connected.
C11_Witness ==
    /\ thrown >= 2
    /\ \E k \in DOMAIN conns :
          /\ connections[conns[k].channelId] = k
          /\ ~conns[k].connected
          /\ conns[k].port # 0
          /\ ports[conns[k].port].writes = <<>>
          /\ conns[k].buffer = <<>>

C13_OpenFailureLeavesClosed ==
    [][\A p \in DOMAIN ports :
          (ports[p].promise = "pending" /\ ports'[p].promise = "rejected") =>
              /\ ~conns'[ports[p].conn].connected
              /\ conns'[ports[p].conn].config = Null
              /\ conns'[ports[p].conn].port = 0
              /\ events' = events
              /\ conns'[ports[p].conn].stats = conns[ports[p].conn].stats
              /\ conns'[ports[p].conn].buffer = conns[ports[p].conn].buffer
              /\ conns'[ports[p].conn].bufferIndex =
                    conns[ports[p].conn].bufferIndex]_vars

\* C14, as claimed: when connect opens a new port for a connection whose
\* connected flag is set, every earlier port of that connection is closed
\* and the disconnected event of the old connection is published no later
\* than that step.
C14_CloseBeforeReopen ==
    [][\A k \in DOMAIN conns :
          (/\ conns[k].connected
           /\ Len(ports') > Len(ports)
           /\ ports'[Len(ports')].conn = k) =>
              /\ \A p \in DOMAIN ports :
                    ports[p].conn = k => ports'[p].st \in {"closed", "failed"}
              /\ events'[conns[k].channelId]["disconnected"] =
                    events[conns[k].channelId]["disconnected"] + 1]_vars

\* C15, as claimed, read in the states where no callback is pending: a
\* channel whose port the device has closed is not connected and has no
\* config, and an error event was published for it.
C15_DeviceLossClosesChannel ==
    \A k \in DOMAIN conns :
        (/\ Quiescent(k)
         /\ conns[k].port # 0
         /\ ports[conns[k].port].st = "closed") =>
            /\ ~conns[k].connected
            /\ conns[k].config = Null
            /\ events[conns[k].channelId]["error"] >= 1
            /\ events[conns[k].channelId]["disconnected"] >= 1

RECURSIVE CountLF(_)
CountLF(chunk) ==
    IF chunk = <<>> THEN 0
    ELSE (IF Head(chunk) = LF THEN 1 ELSE 0) + CountLF(Tail(chunk))

\* C18, as claimed: whatever a parser has accumulated, a chunk makes it emit
\* one line per LF in the chunk, and no emitted line holds an LF or ends
\* with the CR that preceded the LF.
C18_OneCleanLinePerLF ==
    \A p \in DOMAIN ports : \A i \in DOMAIN ports[p].parsers :
        \A chunk \in RxChunks :
            /\ Len(ReadlineParser(ports[p].parsers[i], chunk).lines) =
                  CountLF(chunk)
            /\ \A j \in DOMAIN ReadlineParser(ports[p].parsers[i], chunk).lines :
                  /\ \A n \in DOMAIN ReadlineParser(ports[p].parsers[i], chunk).lines[j] :
                        ReadlineParser(ports[p].parsers[i], chunk).lines[j][n] # LF
                  /\ ReadlineParser(ports[p].parsers[i], chunk).lines[j]
                        [Len(ReadlineParser(ports[p].parsers[i], chunk).lines[j])] # CR

\* C19, as claimed: a 'data' event of a port produces at most one rx entry,
\* one linesRx increment and one line event per LF it delivers.
C19_OneEntryPerLine ==
    [][\A p \in DOMAIN ports : \A chunk \in RxChunks :
          DeviceData(p, chunk) =>
              /\ conns'[ports[p].conn].hist.n - conns[ports[p].conn].hist.n
                    <= CountLF(chunk)
              /\ conns'[ports[p].conn].stats.linesRx
                    - conns[ports[p].conn].stats.linesRx <= CountLF(chunk)
              /\ events'[ports[p].channelId]["line"]
                    - events[ports[p].channelId]["line"] <= CountLF(chunk)]_vars

\* C20, as claimed: when removeChannel takes a channel out of the map, every
\* port of its connection is closed; and a channel that enters the map is a
\* new connection object with an empty buffer, next index 0 and zero stats.
C20_RemoveThenFresh ==
    [][\A c \in ChannelIds :
          /\ (connections[c] # 0 /\ connections'[c] = 0) =>
                \A p \in DOMAIN ports :
                    ports[p].conn = connections[c] =>
                        ports'[p].st \in {"closed", "failed"}
          /\ (connections[c] = 0 /\ connections'[c] # 0) =>
                /\ connections'[c] \notin DOMAIN conns
                /\ conns'[connections'[c]].buffer = <<>>
                /\ conns'[connections'[c]].bufferIndex = 0
                /\ conns'[connections'[c]].stats = ZeroStats
                /\ ~conns'[connections'[c]].connected]_vars

\* C21, as claimed: when the process has exited through gracefulShutdown,
\* port polling is stopped, no channel is connected and no port is open.
C21_ExitLeavesNothingOpen ==
    proc = "exited" =>
        /\ ~poller.interval
        /\ \A k \in DOMAIN conns : ~conns[k].connected
        /\ \A p \in DOMAIN ports : ports[p].st # "open"

\* C22, as claimed: once gracefulShutdown has been triggered, the process
\* ends by process.exit(0) and in no other way.
C22_ShutdownExitsClean ==
    shutdowns > 0 => proc # "crashed"

\* C23: a poll publishes 'ports-changed' exactly when the set of paths it
\* obtained differs from the set at the previous 'ports-changed' (the empty
\* set before the first), whatever the order of the lists, and the event
\* carries the whole list obtained; a poll that publishes nothing leaves the
\* count of events and the last payload's set as they were.
C23_PortsChangedIffSetDiffers ==
    poller.done > 0 =>
        /\ poller.pub <=> Range(poller.polled) # poller.prev
        /\ poller.pub => poller.payload = poller.polled
        /\ poller.seen = Range(poller.payload)
        /\ Range(poller.lastPortPaths) = poller.seen
        /\ poller.changed <= poller.done

\* A poll obtained the same two paths as the previous change in the other
\* order and published nothing.
C23_Witness ==
    /\ poller.done > 1
    /\ ~poller.pub
    /\ ~poller.failed
    /\ Len(poller.polled) = 2
    /\ poller.polled # poller.payload
    /\ Range(poller.polled) = Range(poller.payload)

\* C24, as claimed: a poll whose enumeration failed publishes nothing and
\* leaves the remembered paths as they were.
C24_EnumerationFailureIsNoChange ==
    (poller.done > 0 /\ poller.failed) =>
        /\ ~poller.pub
        /\ Range(poller.lastPortPaths) = poller.prev

\* The decoders whose call on the bytes returned a frame.
Matching(bytes) ==
    {i \in DOMAIN plugins : Decode(plugins[i], bytes).kind = "frame"}

\* The j-th matching decoder in registration order.
NthMatching(bytes, j) ==
    CHOOSE i \in Matching(bytes) :
        Cardinality({m \in Matching(bytes) : m < i}) = j - 1

\* C25: the frames decodeAll returned for the entry of a serial:data message
\* are, in registration order, the frames of exactly the decoders that
\* returned one without throwing, each with its decoder's name as plugin and
\* otherwise as returned; decoders after one that threw are among them.
C25_DecodeAllCollectsInOrder ==
    wsOut.type = "serial:data" =>
        LET bytes == BufferFrom(wsOut.payload.data)
        IN /\ Len(wsOut.decoded) = Cardinality(Matching(bytes))
           /\ \A j \in DOMAIN wsOut.decoded :
                LET p == plugins[NthMatching(bytes, j)]
                    d == wsOut.decoded[j]
                    f == Decode(p, bytes).value
                IN /\ d.plugin = p.name
                   /\ d.protocol = f.protocol
                   /\ d.fields = f.fields
                   /\ d.display = f.display

\* A decoder registered after one that threw on the data has its frame in
\* the result.
C25_Witness ==
    /\ wsOut.type = "serial:data"
    /\ Len(plugins) = 2
    /\ Decode(plugins[1], BufferFrom(wsOut.payload.data)).kind = "threw"
    /\ Len(wsOut.decoded) = 1
    /\ wsOut.decoded[1].plugin = plugins[2].name

\* C26, as claimed: a serial:data message has a decoded field only if its
\* entry is an rx entry for which a decoder returned a frame.
C26_DecodedOnlyForRx ==
    (wsOut.type = "serial:data" /\ wsOut.hasDecoded) =>
        /\ wsOut.payload.direction = "rx"
        /\ Matching(BufferFrom(wsOut.payload.data)) # {}

\* C30, as claimed: every stored macro has the id create assigned to it.
C30_MacroIdImmutable ==
    \A i \in DOMAIN macros : macros[i].id = macros[i].assigned

\* Each placeholder of str from position i on replaced by the value of its
\* parameter as given, everything else kept.
RECURSIVE Substituted(_, _, _)
Substituted(str, i, entries) ==
    IF i > Len(str) THEN <<>>
    ELSE IF \E n \in DOMAIN entries : MatchesAt(str, i, Placeholder(entries[n].key))
    THEN LET n == CHOOSE m \in DOMAIN entries :
                      MatchesAt(str, i, Placeholder(entries[m].key))
         IN entries[n].value
            \o Substituted(str, i + Len(Placeholder(entries[n].key)), entries)
    ELSE <<str[i]>> \o Substituted(str, i + 1, entries)

\* The sends a complete run of the macro makes: its commands in order, once
\* per iteration.
ExpectedSends(macro, entries) ==
    [j \in 1..(macro.repeatCount * Len(macro.commands)) |->
        LET cmd == macro.commands[((j - 1) % Len(macro.commands)) + 1]
        IN [data |-> Substituted(cmd.data, 1, entries),
            mode |-> IF cmd.mode = "" THEN "ascii" ELSE cmd.mode]]

\* The tx entries of the buffer of the channel's connection, as sends.
TxInBuffer(channelId) ==
    IF connections[channelId] = 0 THEN <<>>
    ELSE LET buffer == conns[connections[channelId]].buffer
             tx == SelectSeq(buffer, LAMBDA e : e.direction = "tx")
         IN [j \in DOMAIN tx |-> [data |-> tx[j].data, mode |-> tx[j].mode]]

\* C27, as claimed: the sends of a macro run are the first sends of its
\* commands in order, repeated repeatCount times, each with its placeholders
\* replaced by the parameter values and with its own mode; a run that
\* completed made all of them; and the tx entries in the buffer are among
\* them, in that order.
C27_MacroSendsInOrder ==
    \A n \in DOMAIN runs :
        LET run == runs[n]
            expected == ExpectedSends(run.macro, run.params)
            tx == TxInBuffer(run.channelId)
        IN /\ Len(run.sent) <= Len(expected)
           /\ \A j \in DOMAIN run.sent : run.sent[j] = expected[j]
           /\ run.status = "succeeded" => Len(run.sent) = Len(expected)
           /\ Len(runs) = 1 =>
                /\ \A j \in DOMAIN tx : \E a \in DOMAIN expected : tx[j] = expected[a]
                /\ \A j, k \in DOMAIN tx :
                     j < k => \E a, b \in DOMAIN expected :
                                 a < b /\ tx[j] = expected[a] /\ tx[k] = expected[b]

\* C28, as claimed: once a write of the channel has failed, the macro run
\* issues no further send and does not report success; a run whose send
\* threw has stopped.
C28_SendFailureAborts ==
    \A n \in DOMAIN runs :
        /\ ~runs[n].afterError
        /\ runs[n].status = "succeeded" => WriteErrors(Cur, runs[n].channelId) = 0
        /\ runs[n].status = "failed" => thrown > 0

\* A step of an operation on channel c: a request that names c, or a device
\* event or library callback of a port that was opened for c.
OperationOn(c) ==
    \/ Connect(c)
    \/ Disconnect(c)
    \/ \E inp \in TxInputs, ok \in BOOLEAN : Send(c, inp, ok)
    \/ WsClear(c)
    \/ RestClear(c)
    \/ \E p \in DOMAIN ports :
         /\ ports[p].channelId = c
         /\ \/ \E crash \in BOOLEAN : OpenOk(p, crash)
            \/ OpenErr(p)
            \/ \E i \in DOMAIN ports[p].closeCbs : CloseCallback(p, i)
            \/ WriteCallback(p)
            \/ \E chunk \in RxChunks : DeviceData(p, chunk)

\* Every connection of another channel than c is as it was, the channel is
\* mapped as it was, and no event with its channelId was published.
OthersUntouched(c) ==
    \A b \in ChannelIds \ {c} :
        /\ connections'[b] = connections[b]
        /\ events'[b] = events[b]
        /\ \A k \in DOMAIN conns :
             conns[k].channelId = b =>
                /\ conns'[k].stats = conns[k].stats
                /\ conns'[k].buffer = conns[k].buffer
                /\ conns'[k].bufferIndex = conns[k].bufferIndex
                /\ conns'[k].connected = conns[k].connected
                /\ conns'[k].config = conns[k].config
        /\ \A k \in DOMAIN conns' :
             conns'[k].channelId = b => k \in DOMAIN conns

\* C29: a connect, disconnect, send, clear or received line on one channel,
\* and every callback it causes, leaves the stats, buffer, next index,
\* connected flag and config of every other channel as they were, creates no
\* connection for another channel and publishes no event with another
\* channel's id.
C29_ChannelsIsolated ==
    [][\A c \in ChannelIds : OthersUntouched(c) \/ ~OperationOn(c)]_vars

\* Channel b is connected with an entry in its buffer, and channel a, which
\* has a connection of its own, has been cleared.
C29_Witness ==
    /\ connections["a"] # 0
    /\ connections["b"] # 0
    /\ conns[connections["b"]].connected
    /\ conns[connections["b"]].buffer # <<>>
    /\ events["a"]["cleared"] > 0

\* Hex input is well formed: after whitespace is stripped, an even number of
\* characters that are all hex digits.
WellFormedHex(data) ==
    LET str == StripWhitespace(data)
    IN /\ Len(str) % 2 = 0
       /\ \A i \in DOMAIN str : str[i] \in HexDigits

\* C31, as claimed: a hex send with malformed input writes nothing and
\* records nothing: no write handed to a port and no tx entry in a buffer is
\* a hex send of malformed input, and no byte of one is counted.
C31_MalformedHexRejected ==
    /\ \A p \in DOMAIN ports : \A i \in DOMAIN ports[p].writes :
         ports[p].writes[i].mode = "hex" => WellFormedHex(ports[p].writes[i].data)
    /\ \A k \in DOMAIN conns : \A i \in DOMAIN conns[k].buffer :
         (conns[k].buffer[i].direction = "tx" /\ conns[k].buffer[i].mode = "hex")
            => WellFormedHex(conns[k].buffer[i].data)

\* C32, as claimed: every frame that is no valid JSON or names no known
\* type is answered with one error reply to its sender and nothing else
\* happens: the replies to a socket are as many as the frames of that kind
\* it sent, the process runs on, no channel exists and no event was
\* published.
C32_BadMessageOneErrorReply ==
    /\ \A c \in DOMAIN wss.clients : wss.clients[c].errors = wss.clients[c].bad
    /\ proc = "running"
    /\ \A ch \in ChannelIds :
         /\ connections[ch] = 0
         /\ \A t \in EventTypes : events[ch][t] = 0

\* C36: a socket that a heartbeat tick finds pinged at the tick before and
\* without a pong since is terminated at that tick, and the heartbeat
\* terminates no other socket: one that was never pinged before, or one
\* whose pong arrived since the last ping, stays open.
C36_HeartbeatTerminatesSilentClients ==
    \A c \in DOMAIN wss.clients :
        LET ws == wss.clients[c]
        IN /\ ws.missed <=> ws.terminated
           /\ ws.terminated <=> ws.readyState = "closed"
           /\ ws.readyState = "open" => ws.pinged <= wss.ticks

\* One socket was terminated at its second tick while another, which
\* answered its ping, has been pinged twice and is open.
C36_Witness ==
    \E c, d \in DOMAIN wss.clients :
        /\ wss.clients[c].terminated
        /\ wss.clients[c].pinged = 1
        /\ wss.clients[d].readyState = "open"
        /\ wss.clients[d].pinged >= 2

\* C33, as claimed: the connected and disconnected events of a channel are
\* those of some sequential execution of its connect and disconnect calls.
\* In every sequential execution they alternate, beginning with connected:
\* connect on a connected channel disconnects first, and disconnect on a
\* channel that is not connected publishes nothing. So a connected event
\* never follows a connected event, and a disconnected event only follows
\* a connected event.
C33_ConnectDisconnectSerialise ==
    [][\A c \in ChannelIds :
          /\ events'[c]["connected"] > events[c]["connected"] =>
                told[c].status # "connected"
          /\ events'[c]["disconnected"] > events[c]["disconnected"] =>
                told[c].status = "connected"]_vars

\* C37, as claimed: every port that is open is the port its connection
\* references, and that connection is the one the map holds for the port's
\* channelId; so there is at most one open port per channelId and none
\* without a channel.
C37_NoOrphanHandle ==
    \A p \in DOMAIN ports :
        ports[p].st = "open" =>
            /\ conns[ports[p].conn].port = p
            /\ connections[ports[p].channelId] = ports[p].conn

\* C38, as claimed: while the last of the connected and disconnected
\* events of a channel is disconnected, no step publishes a line event for
\* the channel and no step appends an entry to a connection of the channel.
C38_SilentAfterDisconnected ==
    [][\A c \in ChannelIds :
          told[c].status = "disconnected" =>
              /\ events'[c]["line"] = events[c]["line"]
              /\ \A k \in DOMAIN conns :
                    conns[k].channelId = c =>
                        conns'[k].hist.n = conns[k].hist.n]_vars

\* C34, as claimed: the line events of a channel are published in the
\* order of their indexes: a step that publishes line events for a channel
\* leaves its subscribers with a larger index than the last one they saw
\* since the buffer was cleared or the channel was removed.
C34_LinesInIndexOrder ==
    [][\A c \in ChannelIds :
          events'[c]["line"] > events[c]["line"] =>
              told'[c].index > told[c].index]_vars

\* C35, as claimed: a run is suspended in a delay exactly when the command
\* it sent last has a delayMs above 0 and is not the final command of the
\* final iteration; after its last send the run is not suspended. (A run
\* that failed is not suspended either: its next send threw.)
C35_NoDelayAfterLastSend ==
    \A n \in DOMAIN runs :
        LET run == runs[n]
            len == Len(run.macro.commands)
            total == run.macro.repeatCount * len
            last == run.macro.commands[((Len(run.sent) - 1) % len) + 1]
        IN run.status # "failed" =>
              (run.status = "waiting" <=>
                  /\ Len(run.sent) > 0
                  /\ Len(run.sent) < total
                  /\ last.delayMs > 0)

\* C39: only connect creates a channel. While the map does not hold a
\* channelId, getStatus answers the default closed status and getBuffer the
\* empty list and both change nothing else; clearBuffer and disconnect
\* change nothing at all; send fails and changes nothing else; and a step
\* after which the map holds the channelId is a connect for it.
C39_OnlyConnectCreates ==
    [][\A c \in ChannelIds :
          connections[c] = 0 =>
              /\ GetStatus(c) =>
                    /\ reply'.value = ClosedStatus(c)
                    /\ Commit([Cur EXCEPT !.reply = reply'])
              /\ GetBuffer(c) =>
                    /\ reply'.value = <<>>
                    /\ Commit([Cur EXCEPT !.reply = reply'])
              /\ (RestClear(c) \/ Disconnect(c)) => Commit(Cur)
              /\ (\E inp \in TxInputs, ok \in BOOLEAN : Send(c, inp, ok)) =>
                    /\ thrown' = thrown + 1
                    /\ Commit([Cur EXCEPT !.thrown = thrown'])
              /\ connections'[c] # 0 => Connect(c)]_vars

\* Channel a was created by a connect, and the last request was a
\* getStatus for channel b, which the map does not hold, after a send that
\* failed.
C39_Witness ==
    /\ connections["a"] # 0
    /\ connections["b"] = 0
    /\ reply.op = "getStatus"
    /\ reply.channelId = "b"
    /\ ~reply.present
    /\ thrown > 0
====
